---- MODULE Spec2Model ----
(***************************************************************************)
(* Model of the sentry exporter's collection engine                        *)
(* (package exporter: Exporter.Collect, Exporter.collectOrganizations,     *)
(* Exporter.collectProjectStats).                                          *)
(*                                                                         *)
(* One invocation of Collect runs in a "slot" s: the goroutine that called *)
(* Collect (the walker) plus the worker goroutines it starts.  The remote  *)
(* sentry service is the variable `remote`, fixed for a behaviour: how     *)
(* many pages the organization listing has, which list request fails,      *)
(* which organization details fail, and what the statistics endpoint       *)
(* answers.                                                                *)
(***************************************************************************)
EXTENDS Integers, Sequences, FiniteSets, Bags, TLC

\* ---------------------------------------------------------------- bounds
MaxConcurrency == 2     \* largest configured -sentry.concurrency explored
MaxPages == 3           \* largest number of pages of the organization listing
MaxScrapes == 2         \* invocations of Collect made by overlapping callers

\* ------------------------------------------------------- static tables
\* collectedProjectStats: the keys of the map (eventType)
collectedProjectStats == {"received", "rejected", "blacklisted"}

Slots == 1..2

\* ------------------------------------------------------ remote service
\* The organizations listed on page i of the remote listing.
PageOrgs(i) == IF i = 1 THEN <<1, 2>> ELSE <<i + 1>>

\* GetOrganization's answer: the organization with its teams and projects.
OrgDetail(o) ==
    IF o = 1 THEN [slug |-> 1, teams |-> << [slug |-> 11, projects |-> <<111, 112>>] >>]
    ELSE IF o = 2 THEN [slug |-> 2, teams |-> << [slug |-> 21, projects |-> << >>],
                                               [slug |-> 22, projects |-> <<221>>] >>]
    ELSE [slug |-> o, teams |-> << [slug |-> 10 * o + 1, projects |-> <<100 * o + 11>>] >>]

\* What the statistics endpoint answers per kind, an error or a series of
\* <<timestamp, value>> points (possibly empty); project p gets the profile
\* p % 3 + 1, so that the three projects of the first page differ.
StatProfiles ==
    << [received    |-> [err |-> FALSE, stats |-> << <<100, 5>> >>],
        rejected    |-> [err |-> TRUE,  stats |-> << >>],
        blacklisted |-> [err |-> FALSE, stats |-> << >>]],
       [received    |-> [err |-> FALSE, stats |-> << >>],
        rejected    |-> [err |-> FALSE, stats |-> << >>],
        blacklisted |-> [err |-> FALSE, stats |-> << >>]],
       [received    |-> [err |-> FALSE, stats |-> << <<90, 1>>, <<100, 7>> >>],
        rejected    |-> [err |-> FALSE, stats |-> << <<100, 3>> >>],
        blacklisted |-> [err |-> TRUE,  stats |-> << >>]] >>

\* GetProjectStats(organization, project, statQuery, since, until, resolution)
GetProjectStats(project, kind) ==
    StatProfiles[(project % Len(StatProfiles)) + 1][kind]

NilLink == [page |-> 0, results |-> FALSE]

\* GetOrganizations(): the first page, its Link header and the error.
GetOrganizations(r) ==
    IF r.failPage = 1
    THEN [organizations |-> << >>, link |-> NilLink, err |-> TRUE]
    ELSE [organizations |-> IF r.numPages = 0 THEN << >> ELSE PageOrgs(1),
          link |-> [page |-> 1, results |-> r.numPages > 1],
          err |-> FALSE]

\* GetPage(link.Next, out): the Link header of the next page and the error.
GetPage(r, l) ==
    IF r.failPage = l.page + 1
    THEN [link |-> NilLink, err |-> TRUE]
    ELSE [link |-> [page |-> l.page + 1, results |-> l.page + 1 < r.numPages],
          err |-> FALSE]

\* GetOrganization(slug)
GetOrganization(r, o) ==
    IF o \in r.detailFails
    THEN [err |-> TRUE, org |-> [slug |-> o, teams |-> << >>]]
    ELSE [err |-> FALSE, org |-> OrgDetail(o)]

\* ---------------------------------------------------------------- state
VARIABLES
    maxFetchConccurrency,  \* Exporter.maxFetchConccurrency
    remote,                \* the remote service's behaviour during the run
    callers,               \* slots in which a caller invokes Collect
    scrapeLimit,           \* how many invocations the callers make in all
    totalScrapes,          \* Exporter.totalScrapes (process-wide counter)
    invoked,               \* number of Collect invocations begun
    returned,              \* number of Collect invocations that returned
    pc,                    \* per slot: position of the Collect goroutine
    organizations,         \* per slot: local `organizations`
    link,                  \* per slot: local `link`
    err,                   \* per slot: local `err` of collectOrganizations
    orgIdx,                \* per slot: index of the range over organizations
    jobs,                  \* per slot: jobs of the current org still to send
    spawned,               \* per slot: loop counter i of the worker spawn loop
    workQueue,             \* per slot: buffered contents of workQueue
    closed,                \* per slot: workQueue has been closed
    wg,                    \* per slot: the WaitGroup counter
    workers,               \* per slot: the bag of the worker goroutines' states
    ch,                    \* per slot: what has been sent on the out channel
    enqueued,              \* per slot: history of jobs sent on workQueue
    listed,                \* per slot: history of list pages requested
    detailed,              \* per slot: history of organization details requested
    requested,             \* per slot: bag of the statistic requests made
    done                   \* per slot: bag of the jobs collectProjectStats returned for

vars == <<maxFetchConccurrency, remote, callers, scrapeLimit, totalScrapes, invoked, returned,
          pc, organizations, link, err, orgIdx, jobs, spawned, workQueue, closed,
          wg, workers, ch, enqueued, listed, detailed, requested, done>>

config == <<maxFetchConccurrency, remote, callers, scrapeLimit>>
walkerVars == <<organizations, link, err, orgIdx, jobs, listed, detailed>>
workLog == <<requested, done>>
counters == <<totalScrapes, invoked, returned>>

NoJob == [organization |-> 0, team |-> 0, project |-> 0]
NoKind == "none"

\* A worker goroutine: where it is (at), and its locals work, eventType and
\* the keys its range has not visited yet (todo).
AtRecv == [at |-> "recv", work |-> NoJob, eventType |-> NoKind, todo |-> {}]
Exited == [at |-> "exit", work |-> NoJob, eventType |-> NoKind, todo |-> {}]
EmptyCh == [project |-> EmptyBag, tail |-> << >>]

\* ------------------------------------------------------------- helpers
\* The jobs the nested range over org.Teams and team.Projects sends, in order
\* (lines 238-247).
RECURSIVE JobsOfTeam(_, _, _)
JobsOfTeam(org, team, i) ==
    IF i > Len(team.projects) THEN << >>
    ELSE <<[organization |-> org.slug, team |-> team.slug, project |-> team.projects[i]]>>
         \o JobsOfTeam(org, team, i + 1)

RECURSIVE JobsOfOrg(_, _)
JobsOfOrg(org, t) ==
    IF t > Len(org.teams) THEN << >>
    ELSE JobsOfTeam(org, org.teams[t], 1) \o JobsOfOrg(org, t + 1)

\* The loop condition of line 229.
LoopCond(orgs, e) == Len(orgs) # 0 /\ ~e

\* Mutant of upVal: the error branch of line 257 does not clear the value.
upValAlwaysUp(e) == 1

\* The liveness value computed at lines 256-260.
upVal(e) == IF e THEN 0 ELSE 1

\* Mutant of lastStat: the first point of the series (stats[0]).
firstStat(stats) == stats[1]

\* The metric built at lines 288-303 from the series the fetch returned.
lastStat(stats) == stats[Len(stats)]

Metric(job, kind, stats) ==
    [organization |-> job.organization, team |-> job.team, project |-> job.project,
     type |-> kind, timestamp |-> lastStat(stats)[1], value |-> lastStat(stats)[2]]

\* ----------------------------------------------------- Collect (walker)
\* Collect is called (line 182-183): a fresh channel and fresh locals.
Collect(s) ==
    /\ s \in callers
    /\ pc[s] = "idle"
    /\ invoked < scrapeLimit
    /\ invoked' = invoked + 1
    /\ pc' = [pc EXCEPT ![s] = "list"]
    /\ ch' = [ch EXCEPT ![s] = EmptyCh]
    /\ enqueued' = [enqueued EXCEPT ![s] = << >>]
    /\ listed' = [listed EXCEPT ![s] = << >>]
    /\ detailed' = [detailed EXCEPT ![s] = << >>]
    /\ requested' = [requested EXCEPT ![s] = EmptyBag]
    /\ done' = [done EXCEPT ![s] = EmptyBag]
    /\ organizations' = [organizations EXCEPT ![s] = << >>]
    /\ link' = [link EXCEPT ![s] = NilLink]
    /\ err' = [err EXCEPT ![s] = FALSE]
    /\ orgIdx' = [orgIdx EXCEPT ![s] = 1]
    /\ jobs' = [jobs EXCEPT ![s] = << >>]
    /\ spawned' = [spawned EXCEPT ![s] = 0]
    /\ workQueue' = [workQueue EXCEPT ![s] = << >>]
    /\ closed' = [closed EXCEPT ![s] = FALSE]
    /\ wg' = [wg EXCEPT ![s] = 0]
    /\ workers' = [workers EXCEPT ![s] = EmptyBag]
    /\ UNCHANGED <<config, totalScrapes, returned>>

\* Line 205: organizations, link, err := e.client.GetOrganizations();
\* line 209-213: the queue is made and its close/Wait deferred.
ListOrganizations(s) ==
    /\ pc[s] = "list"
    /\ LET got == GetOrganizations(remote) IN
        /\ organizations' = [organizations EXCEPT ![s] = got.organizations]
        /\ link' = [link EXCEPT ![s] = got.link]
        /\ err' = [err EXCEPT ![s] = got.err]
    /\ listed' = [listed EXCEPT ![s] = Append(@, 1)]
    /\ pc' = [pc EXCEPT ![s] = "spawn"]
    /\ UNCHANGED <<config, counters, orgIdx, jobs, detailed, spawned, workQueue, closed,
                   wg, workers, ch, enqueued, workLog>>

\* Mutant of SpawnCond: the loop runs once too often (i <= c).
SpawnCondOffByOne(i, c) == i <= c

\* The condition of the spawn loop at line 215.
SpawnCond(i, c) == i < c

\* Mutant of SpawnWorker: the goroutine is started without wg.Add(1).
SpawnWorkerNoAdd(s) ==
    /\ pc[s] = "spawn"
    /\ SpawnCond(spawned[s], maxFetchConccurrency)
    /\ spawned' = [spawned EXCEPT ![s] = @ + 1]
    /\ workers' = [workers EXCEPT ![s] = @ (+) SetToBag({AtRecv})]
    /\ UNCHANGED <<config, counters, pc, walkerVars, workQueue, closed, wg, ch, enqueued, workLog>>

\* Lines 215-227, one iteration: wg.Add(1) and the goroutine is started.
SpawnWorker(s) ==
    /\ pc[s] = "spawn"
    /\ SpawnCond(spawned[s], maxFetchConccurrency)
    /\ spawned' = [spawned EXCEPT ![s] = @ + 1]
    /\ wg' = [wg EXCEPT ![s] = @ + 1]
    /\ workers' = [workers EXCEPT ![s] = @ (+) SetToBag({AtRecv})]
    /\ UNCHANGED <<config, counters, pc, walkerVars, workQueue, closed, ch, enqueued, workLog>>

\* The spawn loop is over; the condition of line 229 is evaluated.
EnterLoop(s) ==
    /\ pc[s] = "spawn"
    /\ ~SpawnCond(spawned[s], maxFetchConccurrency)
    /\ pc' = [pc EXCEPT ![s] =
                IF LoopCond(organizations[s], err[s]) THEN "org" ELSE "up"]
    /\ orgIdx' = [orgIdx EXCEPT ![s] = 1]
    /\ UNCHANGED <<config, counters, organizations, link, err, jobs, listed, detailed,
                   spawned, workQueue, closed, wg, workers, ch, enqueued, workLog>>

\* Mutant of NextOrganization: line 233 assigns the function's err (= for :=).
NextOrganizationSharedErr(s) ==
    /\ pc[s] = "org"
    /\ jobs[s] = << >>
    /\ orgIdx[s] <= Len(organizations[s])
    /\ LET got == GetOrganization(remote, organizations[s][orgIdx[s]]) IN
        /\ jobs' = [jobs EXCEPT ![s] = IF got.err THEN << >> ELSE JobsOfOrg(got.org, 1)]
        /\ err' = [err EXCEPT ![s] = got.err]
    /\ detailed' = [detailed EXCEPT ![s] = Append(@, organizations[s][orgIdx[s]])]
    /\ orgIdx' = [orgIdx EXCEPT ![s] = @ + 1]
    /\ UNCHANGED <<config, counters, pc, organizations, link, listed, spawned,
                   workQueue, closed, wg, workers, ch, enqueued, workLog>>

\* Lines 230-237: the next organization of the range is re-pulled.  The err
\* of line 233 is a new variable of the inner block; on failure the
\* organization is skipped (continue).
NextOrganization(s) ==
    /\ pc[s] = "org"
    /\ jobs[s] = << >>
    /\ orgIdx[s] <= Len(organizations[s])
    /\ LET got == GetOrganization(remote, organizations[s][orgIdx[s]]) IN
        jobs' = [jobs EXCEPT ![s] = IF got.err THEN << >> ELSE JobsOfOrg(got.org, 1)]
    /\ detailed' = [detailed EXCEPT ![s] = Append(@, organizations[s][orgIdx[s]])]
    /\ orgIdx' = [orgIdx EXCEPT ![s] = @ + 1]
    /\ UNCHANGED <<config, counters, pc, organizations, link, err, listed, spawned,
                   workQueue, closed, wg, workers, ch, enqueued, workLog>>

\* Mutant of Enqueue: the send never blocks (a queue without a bound).
EnqueueUnbounded(s) ==
    /\ pc[s] = "org"
    /\ jobs[s] # << >>
    /\ workQueue' = [workQueue EXCEPT ![s] = Append(@, Head(jobs[s]))]
    /\ enqueued' = [enqueued EXCEPT ![s] = Append(@, Head(jobs[s]))]
    /\ jobs' = [jobs EXCEPT ![s] = Tail(@)]
    /\ UNCHANGED <<config, counters, pc, organizations, link, err, orgIdx, listed,
                   detailed, spawned, closed, wg, workers, ch, workLog>>

\* Mutant of Enqueue: the queue is made with room for at least one job.
EnqueueAtLeastOne(s) ==
    /\ pc[s] = "org"
    /\ jobs[s] # << >>
    /\ Len(workQueue[s]) < (IF maxFetchConccurrency = 0 THEN 1 ELSE maxFetchConccurrency)
    /\ workQueue' = [workQueue EXCEPT ![s] = Append(@, Head(jobs[s]))]
    /\ enqueued' = [enqueued EXCEPT ![s] = Append(@, Head(jobs[s]))]
    /\ jobs' = [jobs EXCEPT ![s] = Tail(@)]
    /\ UNCHANGED <<config, counters, pc, organizations, link, err, orgIdx, listed,
                   detailed, spawned, closed, wg, workers, ch, workLog>>

\* Line 241: workQueue <- &projectFetchJob{...}; blocks while the buffer
\* (capacity maxFetchConccurrency) is full.
Enqueue(s) ==
    /\ pc[s] = "org"
    /\ jobs[s] # << >>
    /\ Len(workQueue[s]) < maxFetchConccurrency
    /\ workQueue' = [workQueue EXCEPT ![s] = Append(@, Head(jobs[s]))]
    /\ enqueued' = [enqueued EXCEPT ![s] = Append(@, Head(jobs[s]))]
    /\ jobs' = [jobs EXCEPT ![s] = Tail(@)]
    /\ UNCHANGED <<config, counters, pc, organizations, link, err, orgIdx, listed,
                   detailed, spawned, closed, wg, workers, ch, workLog>>

\* Lines 250-252: the last page has been walked.
LastPage(s) ==
    /\ pc[s] = "org"
    /\ jobs[s] = << >>
    /\ orgIdx[s] > Len(organizations[s])
    /\ ~link[s].results
    /\ pc' = [pc EXCEPT ![s] = "up"]
    /\ UNCHANGED <<config, counters, walkerVars, spawned, workQueue, closed, wg,
                   workers, ch, enqueued, workLog>>

\* Line 253: link, err = e.client.GetPage(link.Next, organizations), then the
\* loop condition of line 229.  Only link and err are assigned: the slice
\* `organizations` is passed by value and the local is not set again.
NextPage(s) ==
    /\ pc[s] = "org"
    /\ jobs[s] = << >>
    /\ orgIdx[s] > Len(organizations[s])
    /\ link[s].results
    /\ LET got == GetPage(remote, link[s]) IN
        /\ link' = [link EXCEPT ![s] = got.link]
        /\ err' = [err EXCEPT ![s] = got.err]
        /\ pc' = [pc EXCEPT ![s] =
                    IF LoopCond(organizations[s], got.err) THEN "org" ELSE "up"]
    /\ listed' = [listed EXCEPT ![s] = Append(@, link[s].page + 1)]
    /\ orgIdx' = [orgIdx EXCEPT ![s] = 1]
    /\ UNCHANGED <<config, counters, organizations, jobs, detailed, spawned, workQueue,
                   closed, wg, workers, ch, enqueued, workLog>>

\* Mutant of SendUp: a scrape whose listing failed returns without the
\* liveness sample.
SendUpUnlessErr(s) ==
    /\ pc[s] = "up"
    /\ ch' = [ch EXCEPT ![s].tail =
                IF err[s] THEN @ ELSE Append(@, <<"up", upVal(err[s])>>)]
    /\ pc' = [pc EXCEPT ![s] = "close"]
    /\ UNCHANGED <<config, counters, walkerVars, spawned, workQueue, closed, wg,
                   workers, enqueued, workLog>>

\* Lines 256-266: ch <- sentryUp with upVal.
SendUp(s) ==
    /\ pc[s] = "up"
    /\ ch' = [ch EXCEPT ![s].tail = Append(@, <<"up", upVal(err[s])>>)]
    /\ pc' = [pc EXCEPT ![s] = "close"]
    /\ UNCHANGED <<config, counters, walkerVars, spawned, workQueue, closed, wg,
                   workers, enqueued, workLog>>

\* Mutant of CloseQueue: closing throws away what is still buffered.
CloseQueueDiscard(s) ==
    /\ pc[s] = "close"
    /\ closed' = [closed EXCEPT ![s] = TRUE]
    /\ workQueue' = [workQueue EXCEPT ![s] = << >>]
    /\ pc' = [pc EXCEPT ![s] = "wait"]
    /\ UNCHANGED <<config, counters, walkerVars, spawned, wg,
                   workers, ch, enqueued, workLog>>

\* Deferred at line 211: close(workQueue).
CloseQueue(s) ==
    /\ pc[s] = "close"
    /\ closed' = [closed EXCEPT ![s] = TRUE]
    /\ pc' = [pc EXCEPT ![s] = "wait"]
    /\ UNCHANGED <<config, counters, walkerVars, spawned, workQueue, wg,
                   workers, ch, enqueued, workLog>>

\* Mutant of WaitWorkers: the deferred function does not wait.
WaitWorkersSkipped(s) ==
    /\ pc[s] = "wait"
    /\ pc' = [pc EXCEPT ![s] = "inc"]
    /\ UNCHANGED <<config, counters, walkerVars, spawned, workQueue, closed, wg,
                   workers, ch, enqueued, workLog>>

\* Deferred at line 212: wg.Wait() returns when the counter is zero.
WaitWorkers(s) ==
    /\ pc[s] = "wait"
    /\ wg[s] = 0
    /\ pc' = [pc EXCEPT ![s] = "inc"]
    /\ UNCHANGED <<config, counters, walkerVars, spawned, workQueue, closed, wg,
                   workers, ch, enqueued, workLog>>

\* Mutant of IncScrapes: a scrape whose listing failed is not counted.
IncScrapesUnlessErr(s) ==
    /\ pc[s] = "inc"
    /\ totalScrapes' = IF err[s] THEN totalScrapes ELSE totalScrapes + 1
    /\ pc' = [pc EXCEPT ![s] = "scrapes"]
    /\ UNCHANGED <<config, invoked, returned, walkerVars, spawned, workQueue, closed,
                   wg, workers, ch, enqueued, workLog>>

\* Line 192: e.totalScrapes.Inc() (an atomic add).
IncScrapes(s) ==
    /\ pc[s] = "inc"
    /\ totalScrapes' = totalScrapes + 1
    /\ pc' = [pc EXCEPT ![s] = "scrapes"]
    /\ UNCHANGED <<config, invoked, returned, walkerVars, spawned, workQueue, closed,
                   wg, workers, ch, enqueued, workLog>>

\* Line 193: ch <- e.totalScrapes.
SendScrapes(s) ==
    /\ pc[s] = "scrapes"
    /\ ch' = [ch EXCEPT ![s].tail = Append(@, <<"scrapes", totalScrapes>>)]
    /\ pc' = [pc EXCEPT ![s] = "duration"]
    /\ UNCHANGED <<config, counters, walkerVars, spawned, workQueue, closed, wg,
                   workers, enqueued, workLog>>

\* Deferred at lines 184-190: the duration sample; then Collect returns.
SendDuration(s) ==
    /\ pc[s] = "duration"
    /\ ch' = [ch EXCEPT ![s].tail = Append(@, <<"duration", 0>>)]
    /\ pc' = [pc EXCEPT ![s] = "idle"]
    /\ returned' = returned + 1
    /\ UNCHANGED <<config, totalScrapes, invoked, walkerVars, spawned, workQueue,
                   closed, wg, workers, enqueued, workLog>>

\* -------------------------------------------------------------- workers
\* The worker goroutines of lines 217-226 are anonymous closures: the pool
\* of a slot is the bag of their states.  A worker is modelled at its
\* blocking calls, the receive of line 220 and the request of line 274.
\* What it does between two of them touches only its own locals and the out
\* channel, whose reader is always receiving, so it is one step.

\* Mutant of Emitted: the emptiness test is off by one (len(stats) <= 1).
EmittedOffByOne(job, kind, got) ==
    IF got.err THEN EmptyBag
    ELSE IF Len(got.stats) <= 1 THEN EmptyBag
    ELSE SetToBag({Metric(job, kind, got.stats)})

\* Lines 282-304: what one returned request puts on ch: nothing after an
\* error or an empty series, else the sample of the last point.
Emitted(job, kind, got) ==
    IF got.err THEN EmptyBag
    ELSE IF Len(got.stats) = 0 THEN EmptyBag
    ELSE SetToBag({Metric(job, kind, got.stats)})

\* Mutant of Remaining: an error leaves the range (return for fall through).
RemainingAbortOnErr(rest, got) == IF got.err THEN {} ELSE rest

\* The kinds the range of line 273 still visits after one kind returned got.
Remaining(rest, got) == rest

\* One worker of slot s moves from state old to state new.
Move(s, old, new) ==
    workers' = [workers EXCEPT ![s] = (@ (-) SetToBag({old})) (+) SetToBag({new})]

\* Mutant of Receive: one work queue for all invocations (the queue kept in
\* the Exporter): a worker receives from the queue of any scrape.
ReceiveSharedQueue(s) ==
    /\ BagIn(AtRecv, workers[s])
    /\ \E t \in Slots :
        /\ workQueue[t] # << >>
        /\ workQueue' = [workQueue EXCEPT ![t] = Tail(@)]
        /\ \E k \in collectedProjectStats :
            /\ Move(s, AtRecv, [at |-> "fetch", work |-> Head(workQueue[t]),
                                eventType |-> k, todo |-> collectedProjectStats \ {k}])
            /\ requested' = [requested EXCEPT ![s] =
                                @ (+) SetToBag({<<Head(workQueue[t]), k>>})]
    /\ UNCHANGED <<config, counters, pc, walkerVars, spawned, closed, wg, ch, enqueued,
                   done>>

\* Line 220 with more = true, line 224, and the first request of the range
\* at line 273 (the order of a map range is unspecified: any key).
Receive(s) ==
    /\ BagIn(AtRecv, workers[s])
    /\ workQueue[s] # << >>
    /\ workQueue' = [workQueue EXCEPT ![s] = Tail(@)]
    /\ \E k \in collectedProjectStats :
        /\ Move(s, AtRecv, [at |-> "fetch", work |-> Head(workQueue[s]),
                            eventType |-> k, todo |-> collectedProjectStats \ {k}])
        /\ requested' = [requested EXCEPT ![s] =
                            @ (+) SetToBag({<<Head(workQueue[s]), k>>})]
    /\ UNCHANGED <<config, counters, pc, walkerVars, spawned, closed, wg, ch, enqueued,
                   done>>

\* Mutant of WorkerExit: the worker returns without wg.Done().
WorkerExitNoDone(s) ==
    /\ BagIn(AtRecv, workers[s])
    /\ workQueue[s] = << >>
    /\ closed[s]
    /\ Move(s, AtRecv, Exited)
    /\ UNCHANGED <<config, counters, pc, walkerVars, spawned, workQueue, closed, wg,
                   ch, enqueued, workLog>>

\* Mutant of WorkerExit: the worker returns when it finds the queue empty,
\* closed or not.
WorkerExitOnEmpty(s) ==
    /\ BagIn(AtRecv, workers[s])
    /\ workQueue[s] = << >>
    /\ Move(s, AtRecv, Exited)
    /\ wg' = [wg EXCEPT ![s] = @ - 1]
    /\ UNCHANGED <<config, counters, pc, walkerVars, spawned, workQueue, closed,
                   ch, enqueued, workLog>>

\* Line 220 with more = false (closed and drained): return, and wg.Done().
WorkerExit(s) ==
    /\ BagIn(AtRecv, workers[s])
    /\ workQueue[s] = << >>
    /\ closed[s]
    /\ Move(s, AtRecv, Exited)
    /\ wg' = [wg EXCEPT ![s] = @ - 1]
    /\ UNCHANGED <<config, counters, pc, walkerVars, spawned, workQueue, closed,
                   ch, enqueued, workLog>>

\* Lines 274-304: GetProjectStats returns and its result is handled; the
\* range then requests another kind.
NextKind(s) ==
    /\ \E wk \in BagToSet(workers[s]) :
        /\ wk.at = "fetch"
        /\ LET got == GetProjectStats(wk.work.project, wk.eventType)
               rest == Remaining(wk.todo, got) IN
            /\ rest # {}
            /\ ch' = [ch EXCEPT ![s].project = @ (+) Emitted(wk.work, wk.eventType, got)]
            /\ \E k \in rest :
                /\ Move(s, wk, [wk EXCEPT !.eventType = k, !.todo = rest \ {k}])
                /\ requested' = [requested EXCEPT ![s] =
                                    @ (+) SetToBag({<<wk.work, k>>})]
    /\ UNCHANGED <<config, counters, pc, walkerVars, spawned, workQueue, closed, wg,
                   enqueued, done>>

\* Lines 274-306: GetProjectStats returns for the last kind of the range;
\* collectProjectStats returns and the worker is back at line 220.
JobDone(s) ==
    /\ \E wk \in BagToSet(workers[s]) :
        /\ wk.at = "fetch"
        /\ LET got == GetProjectStats(wk.work.project, wk.eventType)
               rest == Remaining(wk.todo, got) IN
            /\ rest = {}
            /\ ch' = [ch EXCEPT ![s].project = @ (+) Emitted(wk.work, wk.eventType, got)]
            /\ Move(s, wk, AtRecv)
            /\ done' = [done EXCEPT ![s] = @ (+) SetToBag({wk.work})]
    /\ UNCHANGED <<config, counters, pc, walkerVars, spawned, workQueue, closed, wg,
                   enqueued, requested>>

\* ------------------------------------------------------- specification
Remotes ==
    { r \in [numPages : 0..MaxPages, failPage : 0..MaxPages,
             detailFails : SUBSET (1..2)] :
        /\ r.failPage <= IF r.numPages = 0 THEN 1 ELSE r.numPages }

TypeInit ==
    /\ totalScrapes = 0
    /\ invoked = 0
    /\ returned = 0
    /\ pc = [s \in Slots |-> "idle"]
    /\ organizations = [s \in Slots |-> << >>]
    /\ link = [s \in Slots |-> NilLink]
    /\ err = [s \in Slots |-> FALSE]
    /\ orgIdx = [s \in Slots |-> 1]
    /\ jobs = [s \in Slots |-> << >>]
    /\ spawned = [s \in Slots |-> 0]
    /\ workQueue = [s \in Slots |-> << >>]
    /\ closed = [s \in Slots |-> FALSE]
    /\ wg = [s \in Slots |-> 0]
    /\ workers = [s \in Slots |-> EmptyBag]
    /\ ch = [s \in Slots |-> EmptyCh]
    /\ enqueued = [s \in Slots |-> << >>]
    /\ listed = [s \in Slots |-> << >>]
    /\ detailed = [s \in Slots |-> << >>]
    /\ requested = [s \in Slots |-> EmptyBag]
    /\ done = [s \in Slots |-> EmptyBag]

\* One caller, one scrape; main validates concurrency >= 1 (main.go:56).
Init ==
    /\ maxFetchConccurrency \in 1..MaxConcurrency
    /\ remote \in Remotes
    /\ callers = {1}
    /\ scrapeLimit = 1
    /\ TypeInit

\* Every step of slot s but the caller's invocation itself.
Step(s) ==
    \/ ListOrganizations(s)
    \/ SpawnWorker(s)
    \/ EnterLoop(s)
    \/ NextOrganization(s)
    \/ Enqueue(s)
    \/ LastPage(s)
    \/ NextPage(s)
    \/ SendUp(s)
    \/ CloseQueue(s)
    \/ WaitWorkers(s)
    \/ IncScrapes(s)
    \/ SendScrapes(s)
    \/ SendDuration(s)
    \/ Receive(s)
    \/ WorkerExit(s)
    \/ NextKind(s)
    \/ JobDone(s)

Next == \E s \in Slots : Collect(s) \/ Step(s)

Spec == Init /\ [][Next]_vars

\* The goroutines of a scrape are scheduled, every remote request returns
\* and the reader of ch keeps receiving: while some goroutine of a scrape
\* can step, one of them does.
\* Larger pools are run against shorter listings (pool size times pages at
\* most MaxPages), which keeps the behaviour graph small enough to search
\* for cycles.
InitFair ==
    /\ Init
    /\ maxFetchConccurrency * remote.numPages <= MaxPages

FairSpec == InitFair /\ [][Next]_vars /\ WF_vars(\E s \in Slots : Step(s))

\* One caller, one scrape, for the claims about the pool and the queue:
\* every pool size, the larger pools against the shorter listings (pool
\* size plus pages at most MaxPages + 1).
InitPool ==
    /\ Init
    /\ maxFetchConccurrency + remote.numPages <= MaxPages + 1

SpecPool == InitPool /\ [][Next]_vars

\* An exporter built by NewExporter directly, which takes any uint32, zero
\* included, without main's check; one caller, one scrape, scheduled fairly;
\* pool size times pages at most MaxPages.
InitUnchecked ==
    /\ maxFetchConccurrency \in 0..MaxConcurrency
    /\ remote \in Remotes
    /\ maxFetchConccurrency * remote.numPages <= MaxPages
    /\ callers = {1}
    /\ scrapeLimit = 1
    /\ TypeInit

SpecUnchecked == InitUnchecked /\ [][Next]_vars /\ WF_vars(\E s \in Slots : Step(s))

\* Two callers invoke Collect on the one exporter, MaxScrapes times in all,
\* in sequence or overlapping.
InitOverlap ==
    /\ maxFetchConccurrency = 1
    /\ remote \in { r \in Remotes : r.numPages <= 2 /\ 1 \in r.detailFails }
    /\ callers = {1, 2}
    /\ scrapeLimit = MaxScrapes
    /\ TypeInit

SpecOverlap == InitOverlap /\ [][Next]_vars

\* ============================================================== claims
\* ----------------------------------------------------- measurements
Range(f) == {f[i] : i \in DOMAIN f}

\* Number of workers of slot s satisfying at = a.
WorkersAt(s, a) ==
    LET B == workers[s]
        D == {x \in DOMAIN B : x.at = a}
    IN BagCardinality([x \in D |-> B[x]])

\* getProjectStatistics calls of slot s started and not yet returned.
InFlight(s) == WorkersAt(s, "fetch")

\* The scrape of slot s has sent its last sample.
Finished(s) == Len(ch[s].tail) = 3

\* The remote answers kind k of project p with a non-empty series.
NonEmpty(p, k) ==
    ~GetProjectStats(p, k).err /\ Len(GetProjectStats(p, k).stats) > 0

\* How often job j was sent on the work queue of slot s.
TimesEnqueued(s, j) == Cardinality({i \in DOMAIN enqueued[s] : enqueued[s][i] = j})

\* Number of project-statistic samples of kind k on ch of slot s.
SamplesOfKind(s, k) ==
    LET B == ch[s].project
        D == {x \in DOMAIN B : x.type = k}
    IN BagCardinality([x \in D |-> B[x]])

\* Some list request of slot s (first page or a next page) failed.
ListFailed(s) == \E i \in DOMAIN listed[s] : listed[s][i] = remote.failPage

\* The job queue is empty and no worker is processing a job.
Drained(s) == workQueue[s] = << >> /\ InFlight(s) = 0

\* The jobs of the organizations of page i whose detail the remote serves.
RECURSIVE JobsOfOrgs(_, _)
JobsOfOrgs(orgs, i) ==
    IF i > Len(orgs) THEN << >>
    ELSE (IF orgs[i] \in remote.detailFails THEN << >>
          ELSE JobsOfOrg(OrgDetail(orgs[i]), 1)) \o JobsOfOrgs(orgs, i + 1)

JobsOfPage(i) == JobsOfOrgs(PageOrgs(i), 1)

RECURSIVE JobsOfPages(_, _)
JobsOfPages(from, to) ==
    IF from > to THEN << >> ELSE JobsOfPage(from) \o JobsOfPages(from + 1, to)

\* ------------------------------------------------------------------ C1
\* C1: in every reachable state of a scrape configured with concurrency
\* C >= 1, the number of statistic fetches started and not yet returned is
\* at most C.
C1_BoundedFetches ==
    \A s \in Slots : InFlight(s) <= maxFetchConccurrency

\* C fetches are in flight while more jobs wait in the queue.
C1_Witness ==
    /\ maxFetchConccurrency = 2
    /\ InFlight(1) = 2
    /\ Len(workQueue[1]) = 2
    /\ jobs[1] # << >>

C3_CollectReturns ==
    (invoked > returned) ~> (invoked = returned)

\* A scrape with a failed next-page request and a failed detail request,
\* whose jobs met statistic errors and empty series, has returned.
C3_Witness ==
    /\ pc[1] = "idle"
    /\ returned = 1
    /\ err[1]
    /\ remote.failPage = 2
    /\ remote.detailFails = {2}
    /\ Len(enqueued[1]) = 2

\* ------------------------------------------------------------------ C4
\* C4: when a scrape has finished, for every kind K the number of samples
\* of kind K on its channel is the number of enqueued jobs whose kind-K
\* request returned a non-empty series, and each such (job, kind) has
\* exactly one sample per time the job was enqueued; an error or an empty
\* series contributes none.
C4_SampleCounts ==
    \A s \in Slots : Finished(s) =>
        /\ \A k \in collectedProjectStats :
              SamplesOfKind(s, k) =
                 Cardinality({i \in DOMAIN enqueued[s] : NonEmpty(enqueued[s][i].project, k)})
        /\ \A x \in DOMAIN ch[s].project :
              /\ NonEmpty(x.project, x.type)
              /\ ch[s].project[x] =
                    TimesEnqueued(s, [organization |-> x.organization, team |-> x.team,
                                      project |-> x.project])

\* A finished scrape of three jobs: one kind has two samples, one has one.
C4_Witness ==
    /\ Finished(1)
    /\ Len(enqueued[1]) = 3
    /\ SamplesOfKind(1, "received") = 2
    /\ SamplesOfKind(1, "rejected") = 1
    /\ SamplesOfKind(1, "blacklisted") = 0

\* ------------------------------------------------------------------ C5
\* C5: the liveness sample is 1 if the first listing and every next-page
\* request succeeded (the listing was then walked to its last page) and 0
\* otherwise; detail failures, statistic failures and empty series do not
\* change it.
C5_Liveness ==
    \A s \in Slots : ch[s].tail # << >> =>
        /\ ch[s].tail[1] = <<"up", IF ListFailed(s) THEN 0 ELSE 1>>
        /\ ~ListFailed(s) =>
              listed[s] = [i \in 1..(IF remote.numPages = 0 THEN 1 ELSE remote.numPages) |-> i]

\* Liveness 1 although a detail request failed and a statistic request of
\* an enqueued job failed.
C5_Witness ==
    /\ ch[1].tail # << >>
    /\ ch[1].tail[1] = <<"up", 1>>
    /\ remote.detailFails = {2}
    /\ remote.numPages = 2
    /\ \E i \in DOMAIN enqueued[1] : GetProjectStats(enqueued[1][i].project, "rejected").err

\* ------------------------------------------------------------------ C6
\* C6 (as claimed): when the request of page j fails (1 < j <= k), the
\* walker has enqueued a job for every triple of the resolved organizations
\* of pages 1..j-1, has requested no page after j, and liveness is 0.
C6_PagesBeforeFailure ==
    \A s \in Slots :
        (ch[s].tail # << >> /\ remote.failPage > 1 /\ remote.failPage <= remote.numPages) =>
            /\ Range(JobsOfPages(1, remote.failPage - 1)) \subseteq Range(enqueued[s])
            /\ \A i \in DOMAIN listed[s] : listed[s][i] <= remote.failPage
            /\ ch[s].tail[1] = <<"up", 0>>

\* ------------------------------------------------------------------ C7
\* C7: Collect returns only after every worker of the scrape has exited:
\* from the join on, and after the return, all C workers are gone, so none
\* can send on the channel.
C7_ReturnAfterWorkers ==
    \A s \in Slots :
        (pc[s] \in {"inc", "scrapes", "duration"} \/ (pc[s] = "idle" /\ Finished(s))) =>
            /\ WorkersAt(s, "exit") = BagCardinality(workers[s])
            /\ BagCardinality(workers[s]) = maxFetchConccurrency
            /\ wg[s] = 0

\* Collect has returned from a scrape in which two workers sent samples.
C7_Witness ==
    /\ pc[1] = "idle"
    /\ Finished(1)
    /\ maxFetchConccurrency = 2
    /\ BagCardinality(ch[1].project) >= 3

\* ------------------------------------------------------------------ C8
\* C8: every invocation of Collect increments the scrape counter by exactly
\* one: the counter is the number of invocations that passed the increment
\* (those returned plus those between the increment and the return), it
\* moves by steps of +1 and never decreases, for sequential and for
\* overlapping invocations.
C8_CounterPerScrape ==
    /\ [](totalScrapes = returned +
            Cardinality({s \in Slots : pc[s] \in {"scrapes", "duration"}}))
    /\ [][totalScrapes' = totalScrapes \/ totalScrapes' = totalScrapes + 1]_vars

\* Two overlapping invocations have both incremented the counter.
C8_Witness ==
    /\ pc[1] = "scrapes"
    /\ pc[2] = "scrapes"
    /\ totalScrapes = 2
    /\ returned = 0

\* ------------------------------------------------------------------ C9
\* C9: a statistic error for one kind of a job omits only that sample: the
\* kinds of the same job already visited that returned a non-empty series
\* have their sample on the channel, and at the end every enqueued job,
\* also one with a failing kind and the jobs after it, has one sample per
\* non-empty kind.
C9_ErrorIsolated ==
    \A s \in Slots :
        /\ \A wk \in DOMAIN workers[s] :
              wk.at = "fetch" =>
                 \A k \in collectedProjectStats \ (wk.todo \cup {wk.eventType}) :
                    NonEmpty(wk.work.project, k) =>
                       \E x \in DOMAIN ch[s].project :
                          /\ x.project = wk.work.project
                          /\ x.type = k
        /\ Finished(s) =>
              \A i \in DOMAIN enqueued[s] :
                 \A k \in collectedProjectStats :
                    NonEmpty(enqueued[s][i].project, k) =>
                       \E x \in DOMAIN ch[s].project :
                          /\ x.project = enqueued[s][i].project
                          /\ x.type = k
                          /\ ch[s].project[x] >= 1

\* A job whose "rejected" request failed has its "received" sample on the
\* channel, and so has the job enqueued after it.
C9_Witness ==
    /\ Finished(1)
    /\ Len(enqueued[1]) >= 3
    /\ enqueued[1][Len(enqueued[1])] # enqueued[1][1]
    /\ GetProjectStats(enqueued[1][1].project, "rejected").err
    /\ \E x \in DOMAIN ch[1].project :
          x.project = enqueued[1][1].project /\ x.type = "received"
    /\ \E x \in DOMAIN ch[1].project :
          x.project = enqueued[1][Len(enqueued[1])].project

\* ----------------------------------------------------------------- C10
\* C10 (as claimed): when the detail request of an organization fails, no
\* job of it is enqueued and the walker goes on with the other
\* organizations of the page and with the following pages: with no list
\* failure, the jobs enqueued are those of every other organization of
\* every page, in order.
C10_DetailFailureSkipsOnlyOrg ==
    \A s \in Slots :
        (ch[s].tail # << >> /\ remote.failPage = 0 /\ remote.detailFails # {}) =>
            /\ \A i \in DOMAIN enqueued[s] :
                  enqueued[s][i].organization \notin remote.detailFails
            /\ enqueued[s] = JobsOfPages(1, remote.numPages)

\* ----------------------------------------------------------------- C11
\* How often x occurs in the sequence q.
Occurrences(q, x) == Cardinality({i \in DOMAIN q : q[i] = x})

\* The list pages of slot s that were requested and served.
PagesServed(s) == {listed[s][i] : i \in DOMAIN listed[s]} \ {remote.failPage}

\* The organizations the served list pages of slot s named.
OrgsListed(s) == UNION {Range(PageOrgs(p)) : p \in PagesServed(s)}

\* No list page of a scrape is requested twice.
PagesOnce(s) == \A p \in Range(listed[s]) : Occurrences(listed[s], p) = 1

\* Each statistic kind is requested once for each time its job was
\* enqueued: never more while the scrape runs, exactly that when it is over.
StatsOnce(s) ==
    \A j \in Range(enqueued[s]) : \A k \in collectedProjectStats :
        /\ CopiesIn(<<j, k>>, requested[s]) <= TimesEnqueued(s, j)
        /\ Finished(s) => CopiesIn(<<j, k>>, requested[s]) = TimesEnqueued(s, j)

\* The detail of a listed organization is requested once: never twice, and
\* once the walk is over (the liveness sample is out) exactly once.
DetailsOnce(s) ==
    /\ \A o \in Range(detailed[s]) : Occurrences(detailed[s], o) = 1
    /\ ch[s].tail # << >> =>
            \A o \in OrgsListed(s) : Occurrences(detailed[s], o) = 1

\* C11: within one scrape every fetch is attempted exactly once and never
\* retried: each list page at most once, the detail of each listed
\* organization exactly once, each statistic kind exactly once per enqueued
\* job, also for multi-page listings and after errors.
C11_EachFetchOnce == \A s \in Slots : PagesOnce(s) /\ DetailsOnce(s) /\ StatsOnce(s)

\* What holds of the three: pages and statistic requests.
C11_PagesAndStatsOnce == \A s \in Slots : PagesOnce(s) /\ StatsOnce(s)

\* ----------------------------------------------------------------- C12
\* The kinds of the samples Collect and collectOrganizations sent, in order.
TailKinds(s) == [i \in DOMAIN ch[s].tail |-> ch[s].tail[i][1]]

IsPrefix(p, q) == Len(p) <= Len(q) /\ \A i \in DOMAIN p : p[i] = q[i]

\* A scrape was run in slot s and Collect has returned.
Returned(s) == pc[s] = "idle" /\ listed[s] # << >>

\* C12: every scrape emits exactly one liveness sample, one scrape-counter
\* sample and one duration sample, in that order; the counter sample is sent
\* after the increment; the duration sample is the last sample of the
\* stream (when it is out Collect has returned and no goroutine of the
\* scrape is left to send); on every path, failed listings included.
C12_ThreeSamplesInOrder ==
    \A s \in Slots :
        /\ IsPrefix(TailKinds(s), <<"up", "scrapes", "duration">>)
        /\ Returned(s) <=> Finished(s)
        /\ Len(ch[s].tail) >= 2 =>
                ch[s].tail[2][2] >= 1 /\ ch[s].tail[2][2] <= totalScrapes
        /\ Finished(s) =>
                /\ WorkersAt(s, "exit") = maxFetchConccurrency
                /\ BagCardinality(workers[s]) = maxFetchConccurrency
                /\ workQueue[s] = << >>

\* A scrape whose second list page failed has returned, with the three
\* samples after project samples.
C12_Witness ==
    /\ Finished(1)
    /\ remote.failPage = 2
    /\ err[1]
    /\ ch[1].tail[1] = <<"up", 0>>
    /\ ch[1].project # EmptyBag

\* ----------------------------------------------------------------- C13
\* The bag of the elements of the sequence q.
SeqToBag(q) == [x \in Range(q) |-> Occurrences(q, x)]

\* The bag of the jobs the workers of slot s hold in collectProjectStats.
JobsInProcess(s) ==
    LET B == workers[s]
        D == {x \in DOMAIN B : x.at = "fetch"}
    IN BagOfAll(LAMBDA w : w.work, [x \in D |-> B[x]])

\* collectOrganizations of slot s has returned (the join is over).
Joined(s) == pc[s] \in {"inc", "scrapes", "duration"} \/ Returned(s)

\* C13: every job sent on the work queue is received by exactly one worker
\* and processed exactly once before collectOrganizations returns: a sent
\* job is either still buffered, or held by one worker, or done, and after
\* the join every sent job is done, also when a list page failed later.
C13_JobsProcessedOnce ==
    \A s \in Slots :
        /\ SeqToBag(enqueued[s])
             = SeqToBag(workQueue[s]) (+) JobsInProcess(s) (+) done[s]
        /\ Joined(s) => done[s] = SeqToBag(enqueued[s])

\* A scrape has returned whose second list page failed after jobs had been
\* sent; two workers were at work on two of them at a time.
C13_Witness ==
    /\ Returned(1)
    /\ remote.failPage = 2
    /\ Len(enqueued[1]) >= 2
    /\ done[1] = SeqToBag(enqueued[1])
    /\ maxFetchConccurrency = 2

\* ----------------------------------------------------------------- C14
\* The walker of slot s has left the page loop (the liveness sample is out).
WalkOver(s) == ch[s].tail # << >>

\* C14: the walker enqueues exactly one job for each (organization, team,
\* project) triple it discovers on each page: no triple twice across pages,
\* none of a served page whose detail is served missed, and all jobs of a
\* page are enqueued before the next page is requested.
C14_OneJobPerTriple ==
    \A s \in Slots :
        /\ \A j \in Range(enqueued[s]) : TimesEnqueued(s, j) = 1
        /\ WalkOver(s) =>
                \A p \in PagesServed(s) : Range(JobsOfPage(p)) \subseteq Range(enqueued[s])
        /\ \A i \in DOMAIN listed[s] : \A p \in PagesServed(s) :
                p < listed[s][i] => Range(JobsOfPage(p)) \subseteq Range(enqueued[s])

\* What holds of it: the jobs of the first page are enqueued, once each,
\* before the second page is requested.
C14_FirstPageBeforeSecond ==
    \A s \in Slots :
        Len(listed[s]) = 2 /\ orgIdx[s] = 1 /\ pc[s] = "org" =>
            enqueued[s] = JobsOfPage(1)

\* ----------------------------------------------------------------- C15
\* C15: all C workers are started before the walker's first enqueue; the
\* queue is closed once, after the walker's last enqueue (when it is closed
\* the walker is past the close and has nothing left to send); a worker has
\* exited only if the queue is closed and drained.
C15_PoolLifecycle ==
    \A s \in Slots :
        /\ pc[s] = "org" \/ enqueued[s] # << >> =>
                /\ spawned[s] = maxFetchConccurrency
                /\ BagCardinality(workers[s]) = maxFetchConccurrency
        /\ closed[s] =>
                /\ pc[s] \in {"wait", "inc", "scrapes", "duration", "idle"}
                /\ jobs[s] = << >>
        /\ ~closed[s] => pc[s] \in {"idle", "list", "spawn", "org", "up", "close"}
        /\ WorkersAt(s, "exit") > 0 => closed[s] /\ workQueue[s] = << >>

\* The queue is closed, one worker has exited and another is still
\* processing a job that was sent before the close.
C15_Witness ==
    /\ closed[1]
    /\ WorkersAt(1, "exit") = 1
    /\ WorkersAt(1, "fetch") = 1
    /\ Len(enqueued[1]) >= 2

\* ----------------------------------------------------------------- C16
\* The walker of slot s is at the send of line 241 with a job in hand.
AtSend(s) == pc[s] = "org" /\ jobs[s] # << >>

\* The last n elements of the sequence q.
LastOf(q, n) == SubSeq(q, Len(q) - n + 1, Len(q))

\* C16: the work queue never holds more than C jobs; while it is full the
\* walker's send is blocked, and it is a worker's receive that unblocks it;
\* no job is dropped or overwritten: the queue holds the most recently sent
\* jobs, in the order sent, and the walker's next job stays in hand.
C16_BoundedQueue ==
    /\ [](\A s \in Slots :
            /\ Len(workQueue[s]) <= maxFetchConccurrency
            /\ workQueue[s] = LastOf(enqueued[s], Len(workQueue[s]))
            /\ AtSend(s) /\ Len(workQueue[s]) = maxFetchConccurrency
                    => ~ENABLED Enqueue(s))
    /\ [][\A s \in Slots :
            AtSend(s) /\ Len(workQueue[s]) = maxFetchConccurrency =>
                /\ jobs'[s] = jobs[s]
                /\ enqueued'[s] = enqueued[s]
                /\ Len(workQueue'[s]) < Len(workQueue[s]) =>
                        workQueue'[s] = Tail(workQueue[s])]_vars

\* The queue of a pool of two is full, both workers are busy and the walker
\* has a third job in hand.
C16_Witness ==
    /\ maxFetchConccurrency = 2
    /\ Len(workQueue[1]) = 2
    /\ AtSend(1)
    /\ WorkersAt(1, "fetch") = 2

\* ----------------------------------------------------------------- C17
\* C17: a project-statistic sample carries the timestamp and the value of
\* the last point of the series the remote returned for its project and
\* kind (a series that was served and is not empty), and the organization,
\* team and project labels of a job that was enqueued.
C17_LastPointLabelled ==
    \A s \in Slots : \A x \in BagToSet(ch[s].project) :
        LET got == GetProjectStats(x.project, x.type)
            n == Len(got.stats)
        IN  /\ ~got.err
            /\ n > 0
            /\ x.timestamp = got.stats[n][1]
            /\ x.value = got.stats[n][2]
            /\ x.type \in collectedProjectStats
            /\ \E i \in DOMAIN enqueued[s] :
                    enqueued[s][i] = [organization |-> x.organization,
                                      team |-> x.team, project |-> x.project]

\* The sample of a series of two points, <<90, 1>> then <<100, 7>>, is out:
\* it carries the second point and the labels of project 221's job.
C17_Witness ==
    \E x \in BagToSet(ch[1].project) :
        /\ Len(GetProjectStats(x.project, x.type).stats) = 2
        /\ x = [organization |-> 2, team |-> 22, project |-> 221,
                type |-> "received", timestamp |-> 100, value |-> 7]

\* ----------------------------------------------------------------- C18
\* The project-statistic samples the jobs sent in slot s call for: one per
\* sending of a job and kind whose series is served and not empty.
SamplesDue(s) ==
    LET JK == {jk \in Range(enqueued[s]) \X collectedProjectStats :
                    NonEmpty(jk[1].project, jk[2])}
        M(jk) == Metric(jk[1], jk[2], GetProjectStats(jk[1].project, jk[2]).stats)
    IN BagOfAll(M, [jk \in JK |-> TimesEnqueued(s, jk[1])])

\* The workers of slot s that have not returned.
Running(s) == BagCardinality(workers[s]) - WorkersAt(s, "exit")

\* C18: the queue and the pool belong to one invocation.  With invocations
\* overlapping, the jobs an invocation sent are received by its own workers
\* only, their samples go to its own channel, its stream ends with its own
\* liveness, counter and duration samples, and its join counts its own
\* workers only: it is over when they have returned, whatever the workers
\* of the other invocation are doing.
C18_InvocationsSeparate ==
    \A s \in Slots :
        /\ BagCardinality(workers[s]) = spawned[s]
        /\ wg[s] = Running(s)
        /\ SeqToBag(workQueue[s]) (+) JobsInProcess(s) (+) done[s]
                = SeqToBag(enqueued[s])
        /\ ch[s].project \sqsubseteq SamplesDue(s)
        /\ Joined(s) => Running(s) = 0 /\ ch[s].project = SamplesDue(s)
        /\ Finished(s) => TailKinds(s) = <<"up", "scrapes", "duration">>

\* Two invocations overlap: the first has returned with its samples while
\* the worker of the second is still processing a job.
C18_Witness ==
    /\ Returned(1)
    /\ ch[1].project # EmptyBag
    /\ pc[2] \in {"org", "up", "close", "wait"}
    /\ WorkersAt(2, "fetch") = 1
    /\ ch[2].project # EmptyBag

\* ----------------------------------------------------------------- C19
\* The exporter was built with a concurrency of zero.
ZeroConcurrency == maxFetchConccurrency = 0

\* C19: with a concurrency of zero there is no worker and no queue capacity.
\* A scrape that discovers a project stops at its first send for ever (no
\* step of the program is possible from there, so Collect never returns);
\* every zero-concurrency scrape either returns or reaches that send, and
\* the ones that return discovered no project (every detail they requested
\* failed) and sent no job.
C19_ZeroConcurrency ==
    /\ [](ZeroConcurrency =>
            \A s \in Slots :
                /\ workers[s] = EmptyBag /\ wg[s] = 0
                /\ workQueue[s] = << >> /\ enqueued[s] = << >>
                /\ AtSend(s) => ~ENABLED Next
                /\ Returned(s) =>
                        \A o \in Range(detailed[s]) : o \in remote.detailFails)
    /\ [][ZeroConcurrency /\ AtSend(1) => FALSE]_vars
    /\ (ZeroConcurrency /\ invoked = 1) ~> (returned = 1 \/ AtSend(1))

\* A zero-concurrency scrape stands at its first send: a job in hand,
\* nothing sent, no worker.
C19_Witness ==
    /\ ZeroConcurrency
    /\ AtSend(1)
    /\ Len(jobs[1]) = 2
    /\ enqueued[1] = << >>
    /\ workers[1] = EmptyBag

\* A zero-concurrency scrape that found no project has returned.
C19_ReturnsWithoutProject ==
    /\ ZeroConcurrency
    /\ Returned(1)
    /\ detailed[1] # << >>
    /\ ~err[1]

\* ----------------------------------------------------------------- C20
\* The first list request fails, or is served with no organization.
FirstListFails == remote.failPage = 1
FirstListEmpty == remote.failPage # 1 /\ remote.numPages = 0

\* C20: when the first list request fails or is served with no
\* organization, the scrape requests no detail and no further page,
\* enqueues no job and requests no statistic; its stream is the liveness
\* sample (0 after the failure, 1 after the empty listing), the counter
\* sample and the duration sample, and nothing else.
C20_NothingListed ==
    FirstListFails \/ FirstListEmpty =>
        \A s \in Slots :
            /\ detailed[s] = << >>
            /\ Len(listed[s]) <= 1
            /\ enqueued[s] = << >> /\ jobs[s] = << >>
            /\ requested[s] = EmptyBag
            /\ ch[s].project = EmptyBag
            /\ IsPrefix(ch[s].tail, << <<"up", IF FirstListFails THEN 0 ELSE 1>>,
                                       <<"scrapes", 1>>, <<"duration", 0>> >>)
            /\ Returned(s) => Len(ch[s].tail) = 3

\* A scrape whose first list request failed has returned: liveness 0, and
\* its two workers started and returned without a job.
C20_Witness ==
    /\ FirstListFails
    /\ Returned(1)
    /\ ch[1].tail[1] = <<"up", 0>>
    /\ ch[1].project = EmptyBag
    /\ WorkersAt(1, "exit") = 2

\* A scrape whose first list request was served empty has returned.
C20_EmptyListingReturned ==
    /\ FirstListEmpty
    /\ Returned(1)
    /\ ch[1].tail[1] = <<"up", 1>>

============================================================================
